---------------------------- MODULE Spec2Model ----------------------------
(***************************************************************************)
(* Model of src/main.py: the batch ETL pass that reads a column-definition *)
(* file and a data file, composes a CSV artifact, writes it, verifies the  *)
(* row count and hands the file to the storage library.                    *)
(*                                                                         *)
(* A Python str is a sequence of one-character strings; a list is a        *)
(* sequence; None is the record NoneVal.  An uncaught exception ends the   *)
(* interpreter with exit status 1, sys.exit() without argument with 0.     *)
(***************************************************************************)
EXTENDS Integers, Sequences, FiniteSets, TLC

VARIABLES
    pc,                    \* position of __main__ (lines 130-166)
    expected_row_count,    \* EXPECTED_ROW_COUNT (line 21), a parameter here
    fs_cols,               \* SOURCE_COLUMNS as found on disk when opened
    fs_data,               \* SOURCE_DATA as found on disk when opened
    cols,                  \* line 134
    cols_sorted,           \* prep_cols local, line 113
    cols_sorted_names,     \* prep_cols local, line 114
    prepped_cols_names,    \* line 138
    source_data,           \* line 140
    prepped_source_data,   \* line 145
    source_data_w_headers, \* line 148
    row_count,             \* line 148
    dest_file,             \* content of DEST_DATA_FILENAME (lines 151-153)
    load_csv_calls,        \* invocations of storage_lib.load_csv (line 163)
    exit_status,           \* process exit status, -1 while running
    error                  \* what ended the run early, "" if nothing did

vars == << pc, expected_row_count, fs_cols, fs_data, cols, cols_sorted,
           cols_sorted_names, prepped_cols_names, source_data,
           prepped_source_data, source_data_w_headers, row_count, dest_file,
           load_csv_calls, exit_status, error >>

---------------------------------------------------------------------------
(* Bounds of the model.                                                    *)

MaxColLines == 2     \* lines in the column-definition file (pipeline)
MaxRows     == 2     \* lines in the data file
MaxExpected == 3     \* values tried for EXPECTED_ROW_COUNT: 0..MaxExpected
MaxCols     == 3     \* column lines handed to prep_cols alone
MaxRowLen   == 2     \* characters of a data line handed to prep_data alone

---------------------------------------------------------------------------
(* Python values.                                                          *)

NoneVal == [isNone |-> TRUE, items |-> << >>]

List(xs) == [isNone |-> FALSE, items |-> xs]

\* Python truthiness of None or a list: `not v` is ~Truthy(v).
Truthy(v) == ~v.isNone /\ v.items # << >>

Ok(v) == [exc |-> "", val |-> v]

Raise(e) == [exc |-> e, val |-> << >>]

Whitespace == {" "}

Digits == {"0", "1", "2", "3", "4", "5", "6", "7", "8", "9"}

DigitValue(c) ==
    CASE c = "0" -> 0 [] c = "1" -> 1 [] c = "2" -> 2 [] c = "3" -> 3
      [] c = "4" -> 4 [] c = "5" -> 5 [] c = "6" -> 6 [] c = "7" -> 7
      [] c = "8" -> 8 [] c = "9" -> 9

\* The one element of a singleton.  { F(x) : x \in {e} } computes e once
\* and binds x to its value, where LET would compute e at every use of x.
Only(S) == CHOOSE y \in S : TRUE

\* str.strip(): leading and trailing whitespace removed.
RECURSIVE LStrip(_)
LStrip(s) ==
    IF s # << >> /\ Head(s) \in Whitespace THEN LStrip(Tail(s)) ELSE s

RECURSIVE RStrip(_)
RStrip(s) ==
    IF s # << >> /\ s[Len(s)] \in Whitespace
    THEN RStrip(SubSeq(s, 1, Len(s) - 1))
    ELSE s

Strip(s) == RStrip(LStrip(s))

\* str.split(sep): the fields between the separators, always at least one.
RECURSIVE Split(_, _)
Split(s, sep) ==
    IF \A i \in 1..Len(s) : s[i] # sep
    THEN << s >>
    ELSE Only({ << SubSeq(s, 1, i - 1) >>
                    \o Only({ Split(rest, sep) : rest \in {SubSeq(s, i + 1, Len(s))} }) :
                i \in {CHOOSE k \in 1..Len(s) :
                          s[k] = sep /\ \A j \in 1..(k - 1) : s[j] # sep} })

\* sep.join(xs)
RECURSIVE Join(_, _)
Join(xs, sep) ==
    IF xs = << >> THEN << >>
    ELSE IF Len(xs) = 1 THEN xs[1]
    ELSE xs[1] \o << sep >> \o Join(Tail(xs), sep)

\* int(s) accepts surrounding whitespace around a non-empty run of digits
\* (signs and underscores are outside the alphabet of the model).
IsIntLiteral(s) ==
    \E t \in {Strip(s)} : t # << >> /\ \A i \in 1..Len(t) : t[i] \in Digits

RECURSIVE DigitsValue(_)
DigitsValue(t) ==
    IF t = << >> THEN 0
    ELSE 10 * DigitsValue(SubSeq(t, 1, Len(t) - 1)) + DigitValue(t[Len(t)])

IntOf(s) == Only({ DigitsValue(t) : t \in {Strip(s)} })

---------------------------------------------------------------------------
(* The functions of main.py.                                               *)

\* read_file (lines 50-69), the undecorated function: open, readlines,
\* optional strip.  `file` is what the path holds: exists, raw lines.
read_file_func(file, strip_whitespace) ==
    IF ~file.exists THEN Raise("FileNotFoundError")
    ELSE Ok(IF strip_whitespace
            THEN [i \in 1..Len(file.lines) |-> Strip(file.lines[i])]
            ELSE file.lines)

\* log_read_file.wrapper (lines 29-46) around read_file: None for an empty
\* result.  The path check of line 35 never fails for the module's Paths.
log_read_file(file, strip_whitespace) ==
    Only({ IF r.exc # "" THEN r
           ELSE IF r.val = << >> THEN Ok(NoneVal)
           ELSE Ok(List(r.val)) :
           r \in {read_file_func(file, strip_whitespace)} })

\* The sort key of line 100: int(item.split('|')[key_index]).
KeyRaises(item, key_index) ==
    Only({ IF key_index + 1 > Len(parts) THEN "IndexError"
           ELSE IF ~IsIntLiteral(parts[key_index + 1]) THEN "ValueError"
           ELSE "" : parts \in {Split(item, "|")} })

Key(item, key_index) == IntOf(Split(item, "|")[key_index + 1])

\* Insertion keeping equal keys in arrival order: sorted() is stable.
InsertStable(xs, item, key_index) ==
    Only({ SubSeq(xs, 1, n) \o << item >> \o SubSeq(xs, n + 1, Len(xs)) :
            n \in {Cardinality({i \in 1..Len(xs) :
                        Key(xs[i], key_index) <= Key(item, key_index)})} })

\* Insertion that puts an item before the items of equal key.
InsertBeforeEqual(xs, item, key_index) ==
    Only({ SubSeq(xs, 1, n) \o << item >> \o SubSeq(xs, n + 1, Len(xs)) :
            n \in {Cardinality({i \in 1..Len(xs) :
                        Key(xs[i], key_index) < Key(item, key_index)})} })

RECURSIVE SortedUnstable(_, _)
SortedUnstable(data, key_index) ==
    IF data = << >> THEN << >>
    ELSE Only({ InsertBeforeEqual(xs, data[Len(data)], key_index) :
                xs \in {SortedUnstable(SubSeq(data, 1, Len(data) - 1), key_index)} })

RECURSIVE Sorted(_, _)
Sorted(data, key_index) ==
    IF data = << >> THEN << >>
    ELSE Only({ InsertStable(xs, data[Len(data)], key_index) :
                xs \in {Sorted(SubSeq(data, 1, Len(data) - 1), key_index)} })

\* sort_by with a sort that does not keep the order of equal keys.
sort_by_unstable(data, key_index) ==
    IF \E i \in 1..Len(data) : KeyRaises(data[i], key_index) # ""
    THEN LET i == CHOOSE k \in 1..Len(data) :
                      /\ KeyRaises(data[k], key_index) # ""
                      /\ \A j \in 1..(k - 1) : KeyRaises(data[j], key_index) = ""
         IN  Raise(KeyRaises(data[i], key_index))
    ELSE Ok(SortedUnstable(data, key_index))

\* sort_by (lines 92-100): the first item whose key cannot be computed
\* raises; otherwise the items in stable ascending order of the key.
sort_by(data, key_index) ==
    IF \E i \in 1..Len(data) : KeyRaises(data[i], key_index) # ""
    THEN LET i == CHOOSE k \in 1..Len(data) :
                      /\ KeyRaises(data[k], key_index) # ""
                      /\ \A j \in 1..(k - 1) : KeyRaises(data[j], key_index) = ""
         IN  Raise(KeyRaises(data[i], key_index))
    ELSE Ok(Sorted(data, key_index))

\* col.split('|')[1] of line 114.
ColName(col) == Split(col, "|")[2]

\* prep_cols (lines 102-116): val is [sorted |-> cols_sorted,
\* names |-> cols_sorted_names].
prep_cols(c) ==
    Only({ IF s.exc # "" THEN s
           ELSE IF \E i \in 1..Len(s.val) : Len(Split(s.val[i], "|")) < 2
           THEN Raise("IndexError")
           ELSE Ok([sorted |-> s.val, names |-> [i \in 1..Len(s.val) |-> ColName(s.val[i])]]) :
           s \in {sort_by(c, 0)} })

\* A transformation that turns only the first '|' of a row into ','.
FirstPipeOnly(row) ==
    Only({ IF Len(parts) = 1 THEN row
           ELSE parts[1] \o << "," >> \o Join(Tail(parts), "|") :
           parts \in {Split(row, "|")} })

prep_data_first_pipe_only(data) == [i \in 1..Len(data) |-> FirstPipeOnly(data[i])]

\* ','.join(row.split('|')) of line 128.
TransformRow(row) == Only({ Join(parts, ",") : parts \in {Split(row, "|")} })

\* prep_data (lines 118-128).
prep_data(data) == [i \in 1..Len(data) |-> TransformRow(data[i])]

\* compose_csv_data without the guard of lines 84-86 (None taken as []).
compose_csv_data_unguarded(data, c) ==
    LET result == c.items \o data.items
    IN  [isNone |-> FALSE, data |-> result, row_count |-> Len(result)]

\* compose_csv_data putting the body before the header.
compose_csv_data_body_first(data, c) ==
    IF ~Truthy(data) \/ ~Truthy(c)
    THEN [isNone |-> TRUE, data |-> << >>, row_count |-> 0]
    ELSE LET result == data.items \o c.items
         IN  [isNone |-> FALSE, data |-> result, row_count |-> Len(result)]

\* compose_csv_data (lines 71-90): None, or the dict data/row_count.
compose_csv_data(data, c) ==
    IF ~Truthy(data) \/ ~Truthy(c)
    THEN [isNone |-> TRUE, data |-> << >>, row_count |-> 0]
    ELSE LET result == c.items \o data.items
         IN  [isNone |-> FALSE, data |-> result, row_count |-> Len(result)]

\* The comparison with the header not taken off the count.
RowCountMismatchHeaderCounted(rc, expected) == rc # expected

\* The test of line 156.
RowCountMismatch(rc, expected) == (rc - 1) # expected

---------------------------------------------------------------------------
(* The inputs.                                                             *)

\* Raw lines of a column-definition file: well formed, with trailing
\* blanks, and malformed in each way line 100 and line 114 can meet.
ColLineSamples ==
    { << "2", "|", "a" >>,
      << "1", "0", "|", "b" >>,
      << "2", "|", "c" >>,
      << "1", "|", "b", " " >>,
      << "1", "|", "a", "|", "b" >>,
      << "a", "|", "b" >>,
      << "1" >>,
      << " " >> }

\* Raw lines of a data file.
DataLineSamples ==
    { << "1", "|", "x" >>,
      << "a", ",", "b", "|", "c", " " >>,
      << " " >> }

SeqsUpTo(S, n) == UNION {[1..k -> S] : k \in 0..n}

Missing == [exists |-> FALSE, lines |-> << >>]

\* The file has not been opened yet.
Unread == [exists |-> FALSE, lines |-> << << "?" >> >>]

File(ls) == [exists |-> TRUE, lines |-> ls]

ColFiles == {Missing} \cup {File(ls) : ls \in SeqsUpTo(ColLineSamples, MaxColLines)}

DataFiles == {Missing} \cup {File(ls) : ls \in SeqsUpTo(DataLineSamples, MaxRows)}

ExpectedValues == 0..MaxExpected

---------------------------------------------------------------------------
(* __main__ (lines 130-166).                                               *)

Terminal == {"persisted", "failed"}

\* An uncaught exception: traceback, exit status 1.
Crash(e) ==
    /\ pc' = "failed"
    /\ error' = e
    /\ exit_status' = 1

\* sys.exit() of lines 136, 142, 158: no argument, exit status 0.
SysExit(why) ==
    /\ pc' = "failed"
    /\ error' = why
    /\ exit_status' = 0

\* Lines 132-136 with the undecorated read_file and no test of its result.
ReadColsUnchecked ==
    /\ pc = "start"
    /\ \E f \in ColFiles :
          /\ fs_cols' = f
          /\ \E r \in {read_file_func(f, TRUE)} :
                 IF r.exc # ""
                 THEN Crash(r.exc) /\ UNCHANGED cols
                 ELSE /\ cols' = List(r.val)
                      /\ pc' = "cols_loaded"
                      /\ UNCHANGED << error, exit_status >>
    /\ UNCHANGED << expected_row_count, fs_data, cols_sorted, cols_sorted_names,
                    prepped_cols_names, source_data, prepped_source_data,
                    source_data_w_headers, row_count, dest_file, load_csv_calls >>

\* Lines 132-136.
ReadCols ==
    /\ pc = "start"
    /\ \E f \in ColFiles :
          /\ fs_cols' = f
          /\ \E r \in {log_read_file(f, TRUE)} :
                 IF r.exc # ""
                 THEN Crash(r.exc) /\ UNCHANGED cols
                 ELSE /\ cols' = r.val
                      /\ IF ~Truthy(r.val)
                         THEN SysExit("EmptyColumns")
                         ELSE /\ pc' = "cols_loaded"
                              /\ UNCHANGED << error, exit_status >>
    /\ UNCHANGED << expected_row_count, fs_data, cols_sorted, cols_sorted_names,
                    prepped_cols_names, source_data, prepped_source_data,
                    source_data_w_headers, row_count, dest_file, load_csv_calls >>

\* Line 138.
PrepCols ==
    /\ pc = "cols_loaded"
    /\ \E r \in {prep_cols(cols.items)} :
           IF r.exc # ""
           THEN /\ Crash(r.exc)
                /\ UNCHANGED << cols_sorted, cols_sorted_names, prepped_cols_names >>
           ELSE /\ cols_sorted' = List(r.val.sorted)
                /\ cols_sorted_names' = List(r.val.names)
                /\ prepped_cols_names' = List(<< Join(r.val.names, ",") >>)
                /\ pc' = "cols_prepped"
                /\ UNCHANGED << error, exit_status >>
    /\ UNCHANGED << expected_row_count, fs_cols, fs_data, cols, source_data,
                    prepped_source_data, source_data_w_headers, row_count,
                    dest_file, load_csv_calls >>

\* Lines 140-142.
ReadData ==
    /\ pc = "cols_prepped"
    /\ \E f \in DataFiles :
          /\ fs_data' = f
          /\ \E r \in {log_read_file(f, TRUE)} :
                 IF r.exc # ""
                 THEN Crash(r.exc) /\ UNCHANGED source_data
                 ELSE /\ source_data' = r.val
                      /\ IF ~Truthy(r.val)
                         THEN SysExit("EmptyData")
                         ELSE /\ pc' = "data_loaded"
                              /\ UNCHANGED << error, exit_status >>
    /\ UNCHANGED << expected_row_count, fs_cols, cols, cols_sorted,
                    cols_sorted_names, prepped_cols_names, prepped_source_data,
                    source_data_w_headers, row_count, dest_file, load_csv_calls >>

\* Lines 144-145.
PrepData ==
    /\ pc = "data_loaded"
    /\ prepped_source_data' = List(prep_data(source_data.items))
    /\ pc' = "transformed"
    /\ UNCHANGED << expected_row_count, fs_cols, fs_data, cols, cols_sorted,
                    cols_sorted_names, prepped_cols_names, source_data,
                    source_data_w_headers, row_count, dest_file, load_csv_calls,
                    exit_status, error >>

\* Lines 147-148: the call, then .values() on its result.
Compose ==
    /\ pc = "transformed"
    /\ \E r \in {compose_csv_data(prepped_source_data, prepped_cols_names)} :
           IF r.isNone
           THEN /\ Crash("AttributeError")
                /\ UNCHANGED << source_data_w_headers, row_count >>
           ELSE /\ source_data_w_headers' = List(r.data)
                /\ row_count' = r.row_count
                /\ pc' = "composed"
                /\ UNCHANGED << error, exit_status >>
    /\ UNCHANGED << expected_row_count, fs_cols, fs_data, cols, cols_sorted,
                    cols_sorted_names, prepped_cols_names, source_data,
                    prepped_source_data, dest_file, load_csv_calls >>

\* A run that skips the write of lines 150-153.
WriteSkipped ==
    /\ pc = "composed"
    /\ pc' = "written"
    /\ UNCHANGED << expected_row_count, fs_cols, fs_data, cols, cols_sorted,
                    cols_sorted_names, prepped_cols_names, source_data,
                    prepped_source_data, source_data_w_headers, row_count,
                    dest_file, load_csv_calls, exit_status, error >>

\* Lines 150-153.
Write ==
    /\ pc = "composed"
    /\ dest_file' = List(Join(source_data_w_headers.items, "\n"))
    /\ pc' = "written"
    /\ UNCHANGED << expected_row_count, fs_cols, fs_data, cols, cols_sorted,
                    cols_sorted_names, prepped_cols_names, source_data,
                    prepped_source_data, source_data_w_headers, row_count,
                    load_csv_calls, exit_status, error >>

\* Lines 155-160.
Validate ==
    /\ pc = "written"
    /\ IF RowCountMismatch(row_count, expected_row_count)
       THEN SysExit("RowCountMismatch")
       ELSE /\ pc' = "validated"
            /\ UNCHANGED << error, exit_status >>
    /\ UNCHANGED << expected_row_count, fs_cols, fs_data, cols, cols_sorted,
                    cols_sorted_names, prepped_cols_names, source_data,
                    prepped_source_data, source_data_w_headers, row_count,
                    dest_file, load_csv_calls >>

\* A hand-off that is tried again after the library raised.
LoadCsvRetrying ==
    /\ pc = "validated"
    /\ load_csv_calls < 3
    /\ load_csv_calls' = load_csv_calls + 1
    /\ \E raised \in BOOLEAN :
          IF raised
          THEN UNCHANGED << pc, error, exit_status >>
          ELSE /\ pc' = "persisted"
               /\ exit_status' = 0
               /\ UNCHANGED error
    /\ UNCHANGED << expected_row_count, fs_cols, fs_data, cols, cols_sorted,
                    cols_sorted_names, prepped_cols_names, source_data,
                    prepped_source_data, source_data_w_headers, row_count,
                    dest_file >>

\* Lines 162-166: storage_lib.load_csv is called once; the library (not in
\* main.py) either returns, and the run ends normally, or raises.
LoadCsv ==
    /\ pc = "validated"
    /\ load_csv_calls' = load_csv_calls + 1
    /\ \E raised \in BOOLEAN :
          IF raised
          THEN Crash("StorageError")
          ELSE /\ pc' = "persisted"
               /\ exit_status' = 0
               /\ UNCHANGED error
    /\ UNCHANGED << expected_row_count, fs_cols, fs_data, cols, cols_sorted,
                    cols_sorted_names, prepped_cols_names, source_data,
                    prepped_source_data, source_data_w_headers, row_count,
                    dest_file >>

\* The state of the interpreter at position p of __main__, the variables
\* assigned so far holding c, h, d and pd, nothing written or handed off.
InitAt(p, c, h, d, pd) ==
    /\ pc = p
    /\ fs_cols = Unread
    /\ fs_data = Unread
    /\ cols = c
    /\ cols_sorted = NoneVal
    /\ cols_sorted_names = NoneVal
    /\ prepped_cols_names = h
    /\ source_data = d
    /\ prepped_source_data = pd
    /\ source_data_w_headers = NoneVal
    /\ row_count = 0
    /\ dest_file = NoneVal
    /\ load_csv_calls = 0
    /\ exit_status = -1
    /\ error = ""

\* Line 21.
EXPECTED_ROW_COUNT == 1000

\* The whole run, for every value of the expected row count up to the bound.
Init ==
    /\ expected_row_count \in ExpectedValues
    /\ InitAt("start", NoneVal, NoneVal, NoneVal, NoneVal)

Next ==
    \/ ReadCols
    \/ PrepCols
    \/ ReadData
    \/ PrepData
    \/ Compose
    \/ Write
    \/ Validate
    \/ LoadCsv

Spec == Init /\ [][Next]_vars

\* The interpreter runs the statements one after the other until it ends.
FairSpec == Spec /\ WF_vars(Next)

---------------------------------------------------------------------------
(* prep_cols alone, on every sequence of well-formed column lines.         *)

\* Ordinals whose numeric order differs from their order as text (10 and
\* 12 against 2), and two spellings of one number (2 and 02).
OrdinalSamples ==
    { << "1" >>, << "2" >>, << "0", "2" >>, << "1", "0" >>, << "1", "2" >> }

ColumnNames == { << "a" >>, << "b" >> }

StringsUpTo(A, lo, hi) == UNION {[1..k -> A] : k \in lo..hi}

WellFormedColLines ==
    { o \o << "|" >> \o n : o \in OrdinalSamples, n \in ColumnNames }

InitPrepCols ==
    /\ expected_row_count = EXPECTED_ROW_COUNT
    /\ \E c \in SeqsUpTo(WellFormedColLines, MaxCols) :
          InitAt("cols_loaded", List(c), NoneVal, NoneVal, NoneVal)

SpecPrepCols == InitPrepCols /\ [][PrepCols]_vars

---------------------------------------------------------------------------
(* prep_data alone, on every sequence of data lines over a small alphabet. *)

RowAlphabet == {"|", ",", "a"}

RowLines == StringsUpTo(RowAlphabet, 0, MaxRowLen)

InitPrepData ==
    /\ expected_row_count = EXPECTED_ROW_COUNT
    /\ \E d \in SeqsUpTo(RowLines, MaxRows) :
          InitAt("data_loaded", NoneVal, NoneVal, List(d), NoneVal)

SpecPrepData == InitPrepData /\ [][PrepData]_vars

---------------------------------------------------------------------------
(* compose_csv_data and the statements after it, on every header and body, *)
(* empty and None included.                                                *)

HeaderSamples == { << "a", ",", "b" >>, << >> }

BodySamples == { << "1", ",", "x" >>, << "0", ",", "y" >>, << >> }

Headers == {NoneVal, List(<< >>)} \cup {List(<< h >>) : h \in HeaderSamples}

Bodies == {NoneVal} \cup {List(b) : b \in SeqsUpTo(BodySamples, MaxRows)}

InitCompose ==
    /\ expected_row_count \in ExpectedValues
    /\ \E h \in Headers, b \in Bodies :
          InitAt("transformed", NoneVal, h, NoneVal, b)

NextCompose ==
    \/ Compose
    \/ Write
    \/ Validate
    \/ LoadCsv

SpecCompose == InitCompose /\ [][NextCompose]_vars

---------------------------------------------------------------------------
(* The claims.                                                             *)

HandedOff == load_csv_calls > 0

Written == ~dest_file.isNone

\* C1: the storage library is called only in runs where the composed row
\* count less the header, and so the number of data rows read, equals the
\* expected row count.
C1_HardGate ==
    HandedOff =>
        /\ row_count - 1 = expected_row_count
        /\ Len(source_data.items) = expected_row_count

C1_Witness ==
    /\ pc = "persisted"
    /\ load_csv_calls = 1
    /\ expected_row_count = 2
    /\ Len(source_data.items) = 2

WasRead(f) == f # Unread

NoContent(f) == WasRead(f) /\ f.lines = << >>

\* C2: a column or data file that yields no lines (missing or empty) ends
\* the run with nothing written and nothing handed off, and a written
\* artifact always has at least one data row after its header.
C2_EmptyInputHalts ==
    /\ NoContent(fs_cols) =>
          /\ pc = "failed"
          /\ ~WasRead(fs_data)
          /\ ~Written
          /\ ~HandedOff
    /\ NoContent(fs_data) =>
          /\ pc = "failed"
          /\ ~Written
          /\ ~HandedOff
    /\ Written =>
          /\ Len(source_data_w_headers.items) >= 2
          /\ dest_file.items = Join(source_data_w_headers.items, "\n")

C2_Witness ==
    /\ fs_cols.exists
    /\ Truthy(cols)
    /\ fs_data = File(<< >>)
    /\ pc = "failed"
    /\ error = "EmptyData"

\* C3 as stated: the row count is checked before the artifact is written,
\* so an artifact is on disk only when the row count matched.
C3_CheckedBeforeWrite ==
    Written => row_count - 1 = expected_row_count

\* C3 amended: the row count is checked after the artifact is written and
\* before the hand-off; a run that fails the check has written the composed
\* artifact and has not handed it off, and a run past the check has
\* written it and its row count matches.
C3_CheckedAfterWrite ==
    /\ error = "RowCountMismatch" =>
          /\ Written
          /\ dest_file.items = Join(source_data_w_headers.items, "\n")
          /\ row_count - 1 # expected_row_count
          /\ ~HandedOff
    /\ (pc \in {"validated", "persisted"} \/ HandedOff) =>
          /\ Written
          /\ row_count - 1 = expected_row_count

C3_Witness ==
    /\ error = "RowCountMismatch"
    /\ Written
    /\ Len(source_data.items) = 1
    /\ expected_row_count = 2

\* A column line that breaks the contract '<ordinal>|<name>': not exactly
\* one delimiter, or an ordinal that int() rejects.
MalformedColLine(line) ==
    LET parts == Split(line, "|")
    IN  Len(parts) # 2 \/ ~IsIntLiteral(parts[1])

\* C5: a column file with a malformed line never yields column names; the
\* run fails at column preparation, before the data is read or
\* transformed and before anything is written.
C5_MalformedColumnsHalt ==
    (Truthy(cols) /\ \E i \in 1..Len(cols.items) : MalformedColLine(cols.items[i])) =>
        /\ pc \in {"cols_loaded", "failed"}
        /\ cols_sorted_names.isNone
        /\ prepped_cols_names.isNone
        /\ prepped_source_data.isNone
        /\ ~Written

\* C9: a run that ends without completing the hand-off has a non-zero exit
\* status.
C9_FailureExitsNonZero ==
    pc = "failed" => exit_status # 0

\* The stage that follows p when p succeeds.
StageAfter(p) ==
    CASE p = "start" -> "cols_loaded"
      [] p = "cols_loaded" -> "cols_prepped"
      [] p = "cols_prepped" -> "data_loaded"
      [] p = "data_loaded" -> "transformed"
      [] p = "transformed" -> "composed"
      [] p = "composed" -> "written"
      [] p = "written" -> "validated"
      [] p = "validated" -> "persisted"
      [] OTHER -> "none"

C10_Step ==
    /\ pc \notin Terminal
    /\ pc' \in {StageAfter(pc), "failed"}
    /\ pc' = "persisted" => (load_csv_calls = 0 /\ load_csv_calls' = 1)
    /\ load_csv_calls' \in {load_csv_calls, load_csv_calls + 1}
    /\ load_csv_calls' <= 1

C10_Persisted ==
    pc = "persisted" =>
        /\ load_csv_calls = 1
        /\ error = ""
        /\ Truthy(cols)
        /\ Truthy(prepped_cols_names)
        /\ Truthy(source_data)
        /\ Truthy(prepped_source_data)
        /\ Truthy(source_data_w_headers)
        /\ Written
        /\ row_count - 1 = expected_row_count

\* C10: every step moves from a stage to the next stage of the fixed order
\* or to Failed, no step leaves Persisted or Failed, the hand-off happens
\* at most once, Persisted is entered only from Validated with every
\* earlier stage's result in place, and every run ends in Persisted or
\* Failed.
C10_StateMachine ==
    /\ [][C10_Step]_vars
    /\ []C10_Persisted
    /\ <>(pc \in Terminal)


C10_Witness ==
    /\ pc = "persisted"
    /\ exit_status = 0
    /\ Len(cols.items) = 2
    /\ Len(source_data.items) = 1

\* The ordinal and the name of a well-formed column line.
OrdinalOf(line) == IntOf(Split(line, "|")[1])

NameOf(line) == Split(line, "|")[2]

\* The place of input line i in a stable ascending arrangement: after the
\* lines of smaller ordinal and after the earlier lines of equal ordinal.
StablePlace(input, i) ==
    Cardinality({j \in 1..Len(input) : OrdinalOf(input[j]) < OrdinalOf(input[i])})
    + Cardinality({j \in 1..i : OrdinalOf(input[j]) = OrdinalOf(input[i])})

\* C4: on well-formed column lines prep_cols returns, with as many names
\* as there are lines, the name of each line at its place in the stable
\* ascending arrangement by integer ordinal; the sorted lines are
\* non-decreasing by ordinal.
C4_StableAscendingNames ==
    pc # "cols_loaded" =>
        /\ pc = "cols_prepped"
        /\ Len(cols_sorted_names.items) = Len(cols.items)
        /\ Len(cols_sorted.items) = Len(cols.items)
        /\ \A i \in 1..Len(cols.items) :
              /\ cols_sorted.items[StablePlace(cols.items, i)] = cols.items[i]
              /\ cols_sorted_names.items[StablePlace(cols.items, i)] = NameOf(cols.items[i])
        /\ \A k \in 1..(Len(cols_sorted.items) - 1) :
              OrdinalOf(cols_sorted.items[k]) <= OrdinalOf(cols_sorted.items[k + 1])
        /\ \A k \in 1..Len(cols_sorted.items) :
              cols_sorted_names.items[k] = NameOf(cols_sorted.items[k])

\* Lines given as 10|a, 2|b, 02|a: numeric order differs from text order,
\* and two lines tie on the ordinal.
C4_Witness ==
    /\ pc = "cols_prepped"
    /\ cols.items = << << "1", "0", "|", "a" >>, << "2", "|", "b" >>,
                      << "0", "2", "|", "a" >> >>
    /\ cols_sorted_names.items = << << "b" >>, << "a" >>, << "a" >> >>

CountOf(ch, line) == Cardinality({k \in 1..Len(line) : line[k] = ch})

\* C6 as stated: prep_data keeps length and order, and every output line
\* split on ',' gives the fields of its input line split on '|'.
C6_RoundTripAllLines ==
    pc = "transformed" =>
        /\ Len(prepped_source_data.items) = Len(source_data.items)
        /\ \A i \in 1..Len(source_data.items) :
              Split(prepped_source_data.items[i], ",") = Split(source_data.items[i], "|")

\* C6 amended: prep_data keeps length and order; an output line split on
\* ',' gives the fields of its input line split on '|' when the input line
\* holds no ','; every ',' of the input line adds one field to the split
\* of the output line.
C6_RoundTripWithoutCommas ==
    pc = "transformed" =>
        /\ Len(prepped_source_data.items) = Len(source_data.items)
        /\ \A i \in 1..Len(source_data.items) :
              /\ CountOf(",", source_data.items[i]) = 0 =>
                    Split(prepped_source_data.items[i], ",") = Split(source_data.items[i], "|")
              /\ Len(Split(prepped_source_data.items[i], ","))
                    = Len(Split(source_data.items[i], "|")) + CountOf(",", source_data.items[i])

C6_Witness ==
    /\ pc = "transformed"
    /\ source_data.items = << << "a", "|" >>, << "|", "|" >> >>
    /\ prepped_source_data.items = << << "a", "," >>, << ",", "," >> >>

ComposeReturned == pc # "transformed"

\* C7: for a one-element header and a non-empty body compose_csv_data
\* returns the header line followed by the body rows in their order, and a
\* row count of one more than the number of body rows.
C7_HeaderThenBody ==
    (ComposeReturned /\ Truthy(prepped_cols_names) /\ Len(prepped_cols_names.items) = 1
        /\ Truthy(prepped_source_data)) =>
        /\ ~source_data_w_headers.isNone
        /\ Len(source_data_w_headers.items) = 1 + Len(prepped_source_data.items)
        /\ source_data_w_headers.items[1] = prepped_cols_names.items[1]
        /\ \A i \in 1..Len(prepped_source_data.items) :
              source_data_w_headers.items[i + 1] = prepped_source_data.items[i]
        /\ row_count = Len(source_data_w_headers.items)
        /\ row_count = 1 + Len(prepped_source_data.items)

\* A body out of order with a repeated row.
C7_Witness ==
    /\ pc = "composed"
    /\ prepped_source_data.items = << << "1", ",", "x" >>, << "1", ",", "x" >> >>
    /\ prepped_cols_names.items = << << "a", ",", "b" >> >>
    /\ row_count = 3

\* C8: with a header or a body that is None or empty compose_csv_data gives
\* no lines and no row count, and the run ends there with an error:
\* nothing is written and nothing is handed off.
C8_EmptyCompositionHalts ==
    (ComposeReturned /\ (~Truthy(prepped_cols_names) \/ ~Truthy(prepped_source_data))) =>
        /\ pc = "failed"
        /\ error = "AttributeError"
        /\ exit_status = 1
        /\ source_data_w_headers.isNone
        /\ row_count = 0
        /\ ~Written
        /\ ~HandedOff

C8_Witness ==
    /\ pc = "failed"
    /\ Truthy(prepped_cols_names)
    /\ prepped_source_data = List(<< >>)
    /\ error = "AttributeError"

===========================================================================
